---------------------------- MODULE Spec2Model ----------------------------
(***************************************************************************)
(* Model of zodchy_notations.query.math: the Parser that turns a flat      *)
(* query (a 'name=value&...' string or a mapping) into a lazy sequence of  *)
(* (name, clause) results.                                                 *)
(*                                                                         *)
(* Python strings are modelled as sequences of one-character strings, so   *)
(* that the regular expressions, str.split, str.strip and the casts are    *)
(* computed character by character, as the code computes them.             *)
(***************************************************************************)
EXTENDS Integers, Sequences, FiniteSets

(***************************************************************************)
(* String helpers (Python str methods used by the parser).                 *)
(***************************************************************************)

\* Python's None as a raw value of a query pair: a one-element tuple whose
\* element is not a character, so it differs from every string.
None == <<"None">>

\* Python's None as a cast result or as a missing side of a RANGE.
NoneValue == [kind |-> "NoneType", val |-> <<>>]

\* the white space str.strip() removes, as far as the inputs are written
\* with it
Whitespace == {" ", "\n", "\t"}

Digits == {"0", "1", "2", "3", "4", "5", "6", "7", "8", "9"}

RECURSIVE LStrip(_)
LStrip(s) ==
    IF s # <<>> /\ Head(s) \in Whitespace THEN LStrip(Tail(s)) ELSE s

RECURSIVE RStrip(_)
RStrip(s) ==
    IF s # <<>> /\ s[Len(s)] \in Whitespace
    THEN RStrip(SubSeq(s, 1, Len(s) - 1))
    ELSE s

\* str.strip()
Strip(s) == RStrip(LStrip(s))

\* str.startswith(p)
StartsWith(s, p) == Len(s) >= Len(p) /\ SubSeq(s, 1, Len(p)) = p

\* str.endswith(p)
EndsWith(s, p) ==
    Len(s) >= Len(p) /\ SubSeq(s, Len(s) - Len(p) + 1, Len(s)) = p

\* s[n:]
Drop(s, n) == SubSeq(s, n + 1, Len(s))

\* index of the first occurrence of character c in s, 0 if there is none
RECURSIVE FindFrom(_, _, _)
FindFrom(s, c, i) ==
    IF i > Len(s) THEN 0
    ELSE IF s[i] = c THEN i
    ELSE FindFrom(s, c, i + 1)

Find(s, c) == FindFrom(s, c, 1)

\* str.split(c) for a one-character separator: always at least one part
RECURSIVE Split(_, _)
Split(s, c) ==
    LET i == Find(s, c)
    IN  IF i = 0 THEN <<s>>
        ELSE <<SubSeq(s, 1, i - 1)>> \o Split(Drop(s, i), c)

\* str.replace(c, '') for a one-character c
RECURSIVE Remove(_, _)
Remove(s, c) ==
    IF s = <<>> THEN <<>>
    ELSE IF Head(s) = c THEN Remove(Tail(s), c)
    ELSE <<Head(s)>> \o Remove(Tail(s), c)

UpperToLower ==
    [c \in {"A", "B", "C", "D", "E", "F", "L", "R", "S", "T", "U"} |->
        CASE c = "A" -> "a" [] c = "B" -> "b" [] c = "C" -> "c"
          [] c = "D" -> "d" [] c = "E" -> "e" [] c = "F" -> "f"
          [] c = "L" -> "l" [] c = "R" -> "r" [] c = "S" -> "s"
          [] c = "T" -> "t" [] c = "U" -> "u"]

\* str.lower(), on the letters the model's inputs are written with
Lower(s) ==
    [i \in 1..Len(s) |->
        IF s[i] \in DOMAIN UpperToLower THEN UpperToLower[s[i]] ELSE s[i]]

AllIn(s, S) == \A i \in 1..Len(s) : s[i] \in S


(***************************************************************************)
(* Cast values.  Every typed value is a record [kind, val] with val a       *)
(* tuple, so that values of different types are different and can be       *)
(* compared.                                                               *)
(***************************************************************************)

\* the outcome of a cast that raised
CastFailed == [kind |-> "raised", val |-> <<>>]

DigitVal ==
    [c \in Digits |->
        CASE c = "0" -> 0 [] c = "1" -> 1 [] c = "2" -> 2 [] c = "3" -> 3
          [] c = "4" -> 4 [] c = "5" -> 5 [] c = "6" -> 6 [] c = "7" -> 7
          [] c = "8" -> 8 [] c = "9" -> 9]

\* the number written by a sequence of decimal digits
RECURSIVE DecimalValue(_)
DecimalValue(s) ==
    IF s = <<>> THEN 0
    ELSE 10 * DecimalValue(SubSeq(s, 1, Len(s) - 1)) + DigitVal[s[Len(s)]]

\* digits, with single underscores allowed between two digits
IsDigitString(s) ==
    /\ s # <<>>
    /\ AllIn(s, Digits \cup {"_"})
    /\ s[1] # "_"
    /\ s[Len(s)] # "_"
    /\ \A i \in 1..(Len(s) - 1) : ~(s[i] = "_" /\ s[i + 1] = "_")

HasSign(s) == s # <<>> /\ Head(s) \in {"+", "-"}

Unsigned(s) == IF HasSign(s) THEN Tail(s) ELSE s

Signed(s, n) == IF HasSign(s) /\ Head(s) = "-" THEN 0 - n ELSE n

\* int(value): surrounding whitespace, an optional sign, decimal digits
CastInt(value) ==
    LET s == Strip(value)
        body == Unsigned(s)
    IN  IF IsDigitString(body)
        THEN [kind |-> "int",
              val |-> <<Signed(s, DecimalValue(Remove(body, "_")))>>]
        ELSE CastFailed

\* a decimal number num / 10^scale without trailing fractional zeros
RECURSIVE Normalize(_, _)
Normalize(num, scale) ==
    IF scale > 0 /\ num % 10 = 0
    THEN Normalize(num \div 10, scale - 1)
    ELSE <<num, scale>>

\* the scale that marks an infinity, and the one that marks a NaN
InfScale == 0 - 1
NanScale == 0 - 2

\* float(value): surrounding whitespace, an optional sign, then digits with
\* at most one '.', at least one digit in all; or inf, infinity, nan.
\* (Exponent notation is written with 'e', which no input of the model has.)
CastFloat(value) ==
    LET s == Strip(value)
        body == Unsigned(s)
        word == Lower(body)
        parts == Split(body, ".")
        whole == parts[1]
        frac == IF Len(parts) = 2 THEN parts[2] ELSE <<>>
        wellFormed ==
            /\ Len(parts) <= 2
            /\ whole = <<>> \/ IsDigitString(whole)
            /\ frac = <<>> \/ IsDigitString(frac)
            /\ whole # <<>> \/ frac # <<>>
        digits == Remove(whole \o frac, "_")
        fracLen == Len(Remove(frac, "_"))
    IN  IF word \in {<<"i", "n", "f">>, <<"i", "n", "f", "i", "n", "i", "t", "y">>}
        THEN [kind |-> "float", val |-> <<Signed(s, 1), InfScale>>]
        ELSE IF word = <<"n", "a", "n">>
        THEN [kind |-> "float", val |-> <<0, NanScale>>]
        ELSE IF wellFormed
        THEN [kind |-> "float",
              val |-> Normalize(Signed(s, DecimalValue(digits)), fracLen)]
        ELSE CastFailed

\* str(value)
CastStr(value) == [kind |-> "str", val |-> value]

HexDigits == Digits \cup {"a", "b", "c", "d", "e", "f"}

RECURSIVE StripBraces(_)
StripBraces(s) ==
    IF s # <<>> /\ Head(s) \in {"{", "}"} THEN StripBraces(Tail(s))
    ELSE IF s # <<>> /\ s[Len(s)] \in {"{", "}"}
    THEN StripBraces(SubSeq(s, 1, Len(s) - 1))
    ELSE s

\* uuid.UUID(value): braces around and hyphens anywhere are dropped, and 32
\* hexadecimal digits must remain
CastUUID(value) ==
    LET hex == Lower(Remove(StripBraces(value), "-"))
    IN  IF Len(hex) = 32 /\ AllIn(hex, HexDigits)
        THEN [kind |-> "uuid", val |-> hex]
        ELSE CastFailed

IsLeap(y) == (y % 4 = 0 /\ y % 100 # 0) \/ y % 400 = 0

DaysInMonth(y, m) ==
    IF m = 2 THEN (IF IsLeap(y) THEN 29 ELSE 28)
    ELSE IF m \in {4, 6, 9, 11} THEN 30
    ELSE 31

AllDigits(s) == AllIn(s, Digits)

\* the calendar date <<y, m, d>> of year, month and day digit strings
CalendarDate(ys, ms, ds) ==
    LET y == DecimalValue(ys)
        m == DecimalValue(ms)
        d == DecimalValue(ds)
    IN  IF /\ AllDigits(ys) /\ AllDigits(ms) /\ AllDigits(ds)
           /\ y >= 1 /\ m \in 1..12 /\ d >= 1 /\ d <= DaysInMonth(y, m)
        THEN <<y, m, d>>
        ELSE <<>>

\* the date written as YYYY-MM-DD or YYYYMMDD, <<>> if s is neither
IsoDate(s) ==
    IF Len(s) = 10 /\ s[5] = "-" /\ s[8] = "-"
    THEN CalendarDate(SubSeq(s, 1, 4), SubSeq(s, 6, 7), SubSeq(s, 9, 10))
    ELSE IF Len(s) = 8
    THEN CalendarDate(SubSeq(s, 1, 4), SubSeq(s, 5, 6), SubSeq(s, 7, 8))
    ELSE <<>>

\* datetime.date.fromisoformat(value)
CastDate(value) ==
    IF IsoDate(value) # <<>>
    THEN [kind |-> "date", val |-> IsoDate(value)]
    ELSE CastFailed

\* the time <<h, m, s>> written as HH:MM:SS, <<>> if s is not one
IsoTime(s) ==
    IF /\ Len(s) = 8 /\ s[3] = ":" /\ s[6] = ":"
       /\ AllDigits(SubSeq(s, 1, 2)) /\ AllDigits(SubSeq(s, 4, 5))
       /\ AllDigits(SubSeq(s, 7, 8))
       /\ DecimalValue(SubSeq(s, 1, 2)) <= 23
       /\ DecimalValue(SubSeq(s, 4, 5)) <= 59
       /\ DecimalValue(SubSeq(s, 7, 8)) <= 59
    THEN <<DecimalValue(SubSeq(s, 1, 2)), DecimalValue(SubSeq(s, 4, 5)),
           DecimalValue(SubSeq(s, 7, 8))>>
    ELSE <<>>

\* dateutil.parser.parse(value), on ISO-8601 text: YYYY-MM-DD, optionally
\* followed by 'T' or a space and HH:MM:SS, optionally followed by 'Z'.
\* Text of any other shape is reported as a failed cast.
CastDateTime(value) ==
    LET s == Strip(value)
        utc == s # <<>> /\ s[Len(s)] = "Z"
        body == IF utc THEN SubSeq(s, 1, Len(s) - 1) ELSE s
        date == IsoDate(SubSeq(body, 1, 10))
        time == IF Len(body) = 10 THEN <<0, 0, 0>>
                ELSE IF Len(body) = 19 /\ body[11] \in {"T", " "}
                THEN IsoTime(SubSeq(body, 12, 19))
                ELSE <<>>
    IN  IF Len(body) >= 10 /\ body[5] = "-" /\ date # <<>> /\ time # <<>>
                /\ (utc => Len(body) = 19)
        THEN [kind |-> "datetime",
              val |-> date \o time \o (IF utc THEN <<"UTC">> ELSE <<"naive">>)]
        ELSE CastFailed

\* _cast_bool: 'true' and 'false' after strip().lower(); any other token
\* falls off the end of the function, which returns None
_cast_bool(value) ==
    LET v == Lower(Strip(value))
    IN  IF v = <<"f", "a", "l", "s", "e">>
        THEN [kind |-> "bool", val |-> <<FALSE>>]
        ELSE IF v = <<"t", "r", "u", "e">>
        THEN [kind |-> "bool", val |-> <<TRUE>>]
        ELSE NoneValue

\* the default casting overrides
default_casting_map ==
    [datetime |-> "dateutil.parser.parse",
     date |-> "datetime.date.fromisoformat",
     bool |-> "_cast_bool"]

\* interval_types with str let in
interval_types_with_str == {"datetime", "date", "int", "float", "str"}

interval_types == {"datetime", "date", "int", "float"}

\* Parser._cast: the override of the casting map if the type has one, else
\* the type's own constructor
_cast(value, type_) ==
    IF type_ \in DOMAIN default_casting_map
    THEN LET cast == default_casting_map[type_]
         IN  CASE cast = "dateutil.parser.parse" -> CastDateTime(value)
               [] cast = "datetime.date.fromisoformat" -> CastDate(value)
               [] cast = "_cast_bool" -> _cast_bool(value)
    ELSE CASE type_ = "int" -> CastInt(value)
           [] type_ = "float" -> CastFloat(value)
           [] type_ = "str" -> CastStr(value)
           [] type_ = "uuid" -> CastUUID(value)

(***************************************************************************)
(* Clause values (zodchy.codex.query) and the parser's results.            *)
(***************************************************************************)

EQ(v) == [op |-> "EQ", value |-> v]
LIKE(v, case_sensitive) ==
    [op |-> "LIKE", value |-> v, case_sensitive |-> case_sensitive]
NOT(inner) == [op |-> "NOT", inner |-> inner]
IS(v) == [op |-> "IS", value |-> v]
SET(values) == [op |-> "SET", values |-> values]
RANGE(left, right) == [op |-> "RANGE", left |-> left, right |-> right]
GT(v) == [op |-> "GT", value |-> v]
GE(v) == [op |-> "GE", value |-> v]
LT(v) == [op |-> "LT", value |-> v]
LE(v) == [op |-> "LE", value |-> v]
ASC(priority) == [op |-> "ASC", priority |-> priority]
DESC(priority) == [op |-> "DESC", priority |-> priority]
Limit(n) == [op |-> "Limit", value |-> n]
Offset(n) == [op |-> "Offset", value |-> n]

Param(name, value) == [name |-> name, value |-> value]

\* what a handler hands back: a Param, or the exception it raised
Returned(param) == [raised |-> FALSE, param |-> param]
Raised(kind, field) == [raised |-> TRUE, error |-> [kind |-> kind, field |-> field]]

\* The kinds of error are named after the error taxonomy: "undeclared-field"
\* is the Exception of _parse_filter_param, "type-mismatch" the TypeError and
\* "malformed-input" the ValueError of _interval (all three name the field in
\* their message), "cast" whatever int() or a cast function raises; the
\* message of a cast error does not name the field.
NoField == <<>>

\* ParsingSchema defaults
order_by == <<"o", "r", "d", "e", "r", "_", "b", "y">>
limit == <<"l", "i", "m", "i", "t">>
offset == <<"o", "f", "f", "s", "e", "t">>

\* the field names of the test suite's types map
item_id == <<"i", "t", "e", "m", "_", "i", "d">>
amount == <<"a", "m", "o", "u", "n", "t">>
created_at == <<"c", "r", "e", "a", "t", "e", "d", "_", "a", "t">>
birthday == <<"b", "i", "r", "t", "h", "d", "a", "y">>
price == <<"p", "r", "i", "c", "e">>
annotation == <<"a", "n", "n", "o", "t", "a", "t", "i", "o", "n">>
name == <<"n", "a", "m", "e">>
is_active == <<"i", "s", "_", "a", "c", "t", "i", "v", "e">>

types_map ==
    [f \in {item_id, amount, created_at, birthday, price, annotation, name,
            is_active} |->
        CASE f = item_id -> "uuid"
          [] f = amount -> "int"
          [] f = created_at -> "datetime"
          [] f = birthday -> "date"
          [] f = price -> "float"
          [] f = annotation -> "str"
          [] f = name -> "str"
          [] f = is_active -> "bool"]

(***************************************************************************)
(* The value grammar: Parser._pattern_handler_map and its handlers.        *)
(***************************************************************************)

\* operation(v) for the three operations _literal is given
Apply(operation, v) ==
    CASE operation = "EQ" -> EQ(v)
      [] operation = "LIKE" -> LIKE(v, FALSE)
      [] operation = "LIKE(case_sensitive=True)" -> LIKE(v, TRUE)

\* Compare with the exclusive lower bound taken for the inclusive one
CompareInclusive(operation, v) ==
    CASE operation = "GT" -> GE(v)
      [] operation = "GE" -> GE(v)
      [] operation = "LT" -> LT(v)
      [] operation = "LE" -> LE(v)

\* the comparison classes of the operations tuple of _interval
Compare(operation, v) ==
    CASE operation = "GT" -> GT(v)
      [] operation = "GE" -> GE(v)
      [] operation = "LT" -> LT(v)
      [] operation = "LE" -> LE(v)

\* Parser._literal
_literal(field_name, field_value, operation, inversion) ==
    LET v == _cast(field_value, types_map[field_name])
        clause == Apply(operation, v)
    IN  IF v = CastFailed THEN Raised("cast", NoField)
        ELSE Returned(Param(field_name,
                            IF inversion THEN NOT(clause) ELSE clause))

\* WrongCount that lets more than two members through
WrongCountBelow(_data) == Len(_data) < 2

\* len(_data) != 2
WrongCount(_data) == Len(_data) # 2

\* Parser._interval
_interval(field_name, field_value, operations) ==
    LET type_ == types_map[field_name]
        _data == Split(field_value, ",")
        l == _cast(_data[1], type_)
        r == _cast(_data[2], type_)
        left == IF _data[1] # <<>> THEN Compare(operations[1], l)
                ELSE NoneValue
        right == IF _data[2] # <<>> THEN Compare(operations[2], r)
                 ELSE NoneValue
    IN  IF type_ \notin interval_types
        THEN Raised("type-mismatch", field_name)
        ELSE IF WrongCount(_data)
        THEN Raised("malformed-input", field_name)
        ELSE IF (_data[1] # <<>> /\ l = CastFailed)
                    \/ (_data[2] # <<>> /\ r = CastFailed)
        THEN Raised("cast", NoField)
        ELSE Returned(Param(field_name, RANGE(left, right)))

\* the non-empty components of a list of strings, in order
RECURSIVE NonEmpty(_)
NonEmpty(parts) ==
    IF parts = <<>> THEN <<>>
    ELSE IF Head(parts) = <<>> THEN NonEmpty(Tail(parts))
    ELSE <<Head(parts)>> \o NonEmpty(Tail(parts))

\* Parser._multitude
_multitude(field_name, field_value, inversion) ==
    LET parts == NonEmpty(Split(field_value, ","))
        values == [i \in 1..Len(parts) |->
                      _cast(parts[i], types_map[field_name])]
        clause == SET(values)
    IN  IF \E i \in 1..Len(values) : values[i] = CastFailed
        THEN Raised("cast", NoField)
        ELSE Returned(Param(field_name,
                            IF inversion THEN NOT(clause) ELSE clause))

\* the characters of the class [\dTZ:\-,.] of the interval patterns
IntervalChars == Digits \cup {"T", "Z", ":", "-", ",", "."}

\* the strings b with value = prefix b suffix up to where '$' matches: at
\* the end of the value, or before a newline that ends the value
Between(value, prefix, suffix) ==
    LET ends == {Len(value)} \cup
                (IF value # <<>> /\ value[Len(value)] = "\n"
                 THEN {Len(value) - 1} ELSE {})
    IN  {SubSeq(value, Len(prefix) + 1, e - Len(suffix)) :
            e \in {e \in ends :
                     /\ e >= Len(prefix) + Len(suffix)
                     /\ StartsWith(value, prefix)
                     /\ EndsWith(SubSeq(value, 1, e), suffix)}}

\* what the group of a pattern may hold: '.*' is any text without a
\* newline, '[\dTZ:\-,.]+' is one or more characters of the class
GroupOk(group, b) ==
    CASE group = ".*" -> Find(b, "\n") = 0
      [] group = "[\\dTZ:\\-,.]+" -> b # <<>> /\ AllIn(b, IntervalChars)
      [] group = "literal" -> b = <<>>

\* the patterns of _pattern_handler_map in the order of the dictionary:
\* '^' prefix '(' group ')' suffix '$'; the last one, '(.*)', is not
\* anchored.  The literal patterns '^(null)$' and '^(!null)$' are written
\* as a prefix with an empty group.
Patterns ==
    << [prefix |-> <<"n", "u", "l", "l">>, group |-> "literal",
        suffix |-> <<>>, anchored |-> TRUE, handler |-> "IS"],
       [prefix |-> <<"!", "n", "u", "l", "l">>, group |-> "literal",
        suffix |-> <<>>, anchored |-> TRUE, handler |-> "NOT IS"],
       [prefix |-> <<"(">>, group |-> "[\\dTZ:\\-,.]+", suffix |-> <<")">>,
        anchored |-> TRUE, handler |-> "_interval",
        operations |-> <<"GT", "LT">>],
       [prefix |-> <<"[">>, group |-> "[\\dTZ:\\-,.]+", suffix |-> <<")">>,
        anchored |-> TRUE, handler |-> "_interval",
        operations |-> <<"GE", "LT">>],
       [prefix |-> <<"(">>, group |-> "[\\dTZ:\\-,.]+", suffix |-> <<"]">>,
        anchored |-> TRUE, handler |-> "_interval",
        operations |-> <<"GT", "LE">>],
       [prefix |-> <<"[">>, group |-> "[\\dTZ:\\-,.]+", suffix |-> <<"]">>,
        anchored |-> TRUE, handler |-> "_interval",
        operations |-> <<"GE", "LE">>],
       [prefix |-> <<"!", "{">>, group |-> ".*", suffix |-> <<"}">>,
        anchored |-> TRUE, handler |-> "_multitude", inversion |-> TRUE],
       [prefix |-> <<"{">>, group |-> ".*", suffix |-> <<"}">>,
        anchored |-> TRUE, handler |-> "_multitude", inversion |-> FALSE],
       [prefix |-> <<"~", "~">>, group |-> ".*", suffix |-> <<>>,
        anchored |-> TRUE, handler |-> "_literal", operation |-> "LIKE",
        inversion |-> FALSE],
       [prefix |-> <<"!", "~", "~">>, group |-> ".*", suffix |-> <<>>,
        anchored |-> TRUE, handler |-> "_literal", operation |-> "LIKE",
        inversion |-> TRUE],
       [prefix |-> <<"~">>, group |-> ".*", suffix |-> <<>>,
        anchored |-> TRUE, handler |-> "_literal",
        operation |-> "LIKE(case_sensitive=True)", inversion |-> FALSE],
       [prefix |-> <<"!", "~">>, group |-> ".*", suffix |-> <<>>,
        anchored |-> TRUE, handler |-> "_literal",
        operation |-> "LIKE(case_sensitive=True)", inversion |-> TRUE],
       [prefix |-> <<"!">>, group |-> ".*", suffix |-> <<>>,
        anchored |-> TRUE, handler |-> "_literal", operation |-> "EQ",
        inversion |-> TRUE],
       [prefix |-> <<>>, group |-> ".*", suffix |-> <<>>,
        anchored |-> FALSE, handler |-> "_literal", operation |-> "EQ",
        inversion |-> FALSE] >>

\* the text up to the first newline: what '(.*)' finds at the start
FirstLine(value) ==
    IF Find(value, "\n") = 0 THEN value
    ELSE SubSeq(value, 1, Find(value, "\n") - 1)

\* pattern.search(value): the set holding group(1) of the match, empty if
\* the pattern does not match
Search(pattern, value) ==
    IF pattern.anchored
    THEN {b \in Between(value, pattern.prefix, pattern.suffix) :
            GroupOk(pattern.group, b)}
    ELSE {FirstLine(value)}

\* for pattern, handler in ...: if mo := pattern.search(value): the index of
\* the first pattern from the i-th on that matches, 0 if none does
RECURSIVE FirstMatch(_, _)
FirstMatch(value, i) ==
    IF i > Len(Patterns) THEN 0
    ELSE IF Search(Patterns[i], value) # {} THEN i
    ELSE FirstMatch(value, i + 1)

\* handler(name, mo.group(1)) for the handler of a pattern
Handle(pattern, field_name, group) ==
    CASE pattern.handler = "IS" ->
            Returned(Param(field_name, IS(NoneValue)))
      [] pattern.handler = "NOT IS" ->
            Returned(Param(field_name, NOT(IS(NoneValue))))
      [] pattern.handler = "_interval" ->
            _interval(field_name, group, pattern.operations)
      [] pattern.handler = "_multitude" ->
            _multitude(field_name, group, pattern.inversion)
      [] pattern.handler = "_literal" ->
            _literal(field_name, group, pattern.operation, pattern.inversion)

\* the loop of _parse_filter_param over the patterns: the handler of the
\* first pattern that matches, called on group(1) of the match.  The last
\* pattern matches every value, so the loop always returns in its body.
MatchAndHandle(field_name, value) ==
    LET pattern == Patterns[FirstMatch(value, 1)]
        mo == CHOOSE b \in Search(pattern, value) : TRUE
    IN  Handle(pattern, field_name,
               IF pattern.group = "literal" THEN pattern.prefix ELSE mo)

\* _parse_filter_param that takes a field without declared type for a string
_parse_filter_param_undeclared_as_str(field_name, value) ==
    IF field_name \notin DOMAIN types_map
    THEN Returned(Param(field_name, EQ(CastStr(value))))
    ELSE MatchAndHandle(field_name, value)

\* Parser._parse_filter_param
_parse_filter_param(field_name, value) ==
    IF field_name \notin DOMAIN types_map
    THEN Raised("undeclared-field", field_name)
    ELSE MatchAndHandle(field_name, value)

(***************************************************************************)
(* The inputs of a parse call.                                             *)
(***************************************************************************)

MaxParts == 4
MaxBounds == 3
MaxMembers == 2
MaxPairs == 3

\* the concatenation of a sequence of strings
RECURSIVE Flatten(_)
Flatten(parts) ==
    IF parts = <<>> THEN <<>> ELSE Head(parts) \o Flatten(Tail(parts))

\* the strings made of at most n pieces of the set S
Texts(S, n) == {Flatten(parts) : parts \in UNION {[1..k -> S] : k \in 0..n}}

true == <<"t", "r", "u", "e">>
null == <<"n", "u", "l", "l">>
aDate == <<"2", "0", "2", "4", "-", "0", "4", "-", "0", "4">>
aTime == <<"T", "1", "1", ":", "0", "4", ":", "0", "2">>
aUUID ==
    <<"7", "4", "4", "f", "7", "c", "5", "2", "-", "5", "4", "0", "5", "-",
      "4", "0", "8", "7", "-", "a", "d", "0", "a", "-",
      "2", "d", "b", "b", "1", "d", "5", "1", "2", "a", "6", "8">>
foo == <<"f", "o", "o">>

\* free-form values: markers, the null keyword, text, a line break, a
\* boolean token, a digit
FreePieces ==
    {<<"!">>, <<"~">>, null, <<"\n">>, <<"T", "r", "u", "e">>, <<"1">>}

FreeFields == {annotation, amount, is_active}

\* bracketed values: a bracket, up to MaxBounds tokens, a bracket
BoundTokens ==
    {<<",">>, <<"1">>, <<"+", "3">>, aDate, aDate \o aTime}

BracketFields ==
    {item_id, amount, created_at, birthday, price, annotation, is_active}

Bracketed ==
    {open \o interior \o close :
        open \in {<<"(">>, <<"[">>}, close \in {<<")">>, <<"]">>},
        interior \in Texts(BoundTokens, MaxBounds)}

\* braced values: an optional '!', then up to MaxMembers tokens in braces
Braced ==
    {mark \o <<"{">> \o interior \o <<"}">> :
        mark \in {<<>>, <<"!">>},
        interior \in Texts({<<",">>, <<"1">>, <<"a">>}, MaxMembers)}

\* the values of the test suite, one for each declared type
References ==
    {<<item_id, aUUID>>, <<amount, <<"1", "2">>>>,
     <<price, <<"1", "2", ".", "2", "3">>>>, <<created_at, aDate \o aTime>>,
     <<birthday, aDate>>, <<name, <<"a", " ", "b">>>>, <<is_active, true>>,
     <<is_active, <<"f", "a", "l", "s", "e">>>>}

\* a mapping with one filter field
FilterItems ==
    {<<f, v>> : f \in FreeFields, v \in Texts(FreePieces, MaxParts)}
        \cup {<<f, v>> : f \in BracketFields, v \in Bracketed}
        \cup {<<f, v>> : f \in {amount, annotation}, v \in Braced}
        \cup References

\* order values: names, the descending mark and the separator
OrderPieces == {<<"a">>, <<"b">>, <<"-">>, <<",">>}

\* the pairs that requests of several pairs are made of
PairPool ==
    {<<order_by, <<"a", ",", "-", "b">>>>, <<order_by, <<"b">>>>,
     <<order_by, None>>, <<limit, <<"1">>>>, <<limit, <<"x">>>>,
     <<limit, None>>, <<offset, <<"2">>>>, <<offset, None>>,
     <<amount, <<"[", "1", ",", ")">>>>, <<amount, None>>,
     <<foo, <<"1">>>>, <<foo, None>>}

PairSeqs == UNION {[1..k -> PairPool] : k \in 0..MaxPairs}

\* 'name=value&name=value...'
RECURSIVE Join(_)
Join(items) ==
    IF items = <<>> THEN <<>>
    ELSE Head(items)[1] \o <<"=">> \o Head(items)[2]
            \o (IF Tail(items) = <<>> THEN <<>>
                ELSE <<"&">> \o Join(Tail(items)))

StrQuery(text) == [kind |-> "str", text |-> text, items |-> <<>>]
MappingQuery(items) == [kind |-> "mapping", text |-> <<>>, items |-> items]

\* a mapping has each key once; a string has no absent value but may repeat
\* a name, and may hold a segment without '=' or with two
Queries ==
    {MappingQuery(<<item>>) : item \in FilterItems}
        \cup {MappingQuery(<<<<order_by, text>>>>) :
                text \in Texts(OrderPieces, MaxParts)}
        \cup {MappingQuery(items) : items \in
                {q \in PairSeqs :
                    \A i, j \in 1..Len(q) : q[i][1] = q[j][1] => i = j}}
        \cup {StrQuery(Join(items)) : items \in
                {q \in PairSeqs : \A i \in 1..Len(q) : q[i][2] # None}}
        \cup {StrQuery(text) : text \in
                {amount, amount \o <<"=", "1", "&">> \o foo,
                 amount \o <<"=", "1", "=", "2">>}}
        \cup {[kind |-> "other", text |-> <<>>, items |-> <<>>]}

(***************************************************************************)
(* The parse call as a state machine: Parser.__call__ is a generator, and  *)
(* each action below is one step of it.                                    *)
(***************************************************************************)

VARIABLES
    query,      \* the query argument of the call
    pairs,      \* the (name, value) pairs the query is normalised to
    pos,        \* index in pairs of the pair that _parse is at
    names,      \* the names _parse_order_param has still to yield
    priority,   \* the priority counter of _parse_order_param
    out,        \* the (name, value) results yielded so far
    error,      \* the exception the call raised, NoError if none
    pc          \* "call", "parse", "order", "done" or "raised"

vars == <<query, pairs, pos, names, priority, out, error, pc>>

NoError == [kind |-> "none", field |-> NoField]

Init ==
    /\ query \in Queries
    /\ pairs = <<>>
    /\ pos = 1
    /\ names = <<>>
    /\ priority = 0
    /\ out = <<>>
    /\ error = NoError
    /\ pc = "call"

\* an exception leaves the generator: nothing more is yielded
Raise(e) ==
    /\ error' = e
    /\ pc' = "raised"
    /\ UNCHANGED <<query, pairs, pos, names, priority, out>>

\* __call__ yields param.name, param.value
Yield(param) == out' = Append(out, <<param.name, param.value>>)

\* Parser.__call__ up to the loop over _parse
Call ==
    /\ pc = "call"
    /\ IF query.kind = "str"
       THEN IF Find(query.text, "=") = 0
            THEN Raise([kind |-> "malformed-input", field |-> NoField])
            ELSE /\ pairs' = [i \in 1..Len(Split(query.text, "&")) |->
                                 Split(Split(query.text, "&")[i], "=")]
                 /\ pc' = "parse"
                 /\ UNCHANGED <<query, pos, names, priority, out, error>>
       ELSE IF query.kind = "mapping"
       THEN /\ pairs' = query.items
            /\ pc' = "parse"
            /\ UNCHANGED <<query, pos, names, priority, out, error>>
       ELSE Raise([kind |-> "malformed-input", field |-> NoField])

AtPair == pc = "parse" /\ pos <= Len(pairs)

\* k, v = pair
k == pairs[pos][1]
v == pairs[pos][2]

\* k, v = pair fails when a segment of the string holds no '=' or several
Unpack ==
    /\ AtPair
    /\ Len(pairs[pos]) # 2
    /\ Raise([kind |-> "malformed-input", field |-> NoField])

Dispatched == AtPair /\ Len(pairs[pos]) = 2 /\ v # None

\* SkipNone that leaves the loop instead of going on with the next pair
SkipNoneBreak ==
    /\ AtPair
    /\ Len(pairs[pos]) = 2
    /\ v = None
    /\ pos' = Len(pairs) + 1
    /\ UNCHANGED <<query, pairs, names, priority, out, error, pc>>

\* if v is None: continue
SkipNone ==
    /\ AtPair
    /\ Len(pairs[pos]) = 2
    /\ v = None
    /\ pos' = pos + 1
    /\ UNCHANGED <<query, pairs, names, priority, out, error, pc>>

\* k == order_by: the generator _parse_order_param(v) is created
OrderBy ==
    /\ Dispatched
    /\ k = order_by
    /\ names' = Split(v, ",")
    /\ priority' = 0
    /\ pc' = "order"
    /\ UNCHANGED <<query, pairs, pos, out, error>>

\* _parse_order_param that keeps the '-' of a descending name
_parse_order_param_keeps_mark ==
    /\ pc = "order"
    /\ LET n == Head(names)
       IN  Yield(IF StartsWith(n, <<"-">>)
                 THEN Param(n, DESC(priority))
                 ELSE Param(n, ASC(priority)))
    /\ priority' = priority + 1
    /\ names' = Tail(names)
    /\ IF Tail(names) = <<>>
       THEN pc' = "parse" /\ pos' = pos + 1
       ELSE UNCHANGED <<pc, pos>>
    /\ UNCHANGED <<query, pairs, error>>

\* one iteration of the loop of _parse_order_param; after the last name
\* the generator returns and _parse goes on to the next pair
_parse_order_param ==
    /\ pc = "order"
    /\ LET n == Head(names)
       IN  Yield(IF StartsWith(n, <<"-">>)
                 THEN Param(Drop(n, 1), DESC(priority))
                 ELSE Param(n, ASC(priority)))
    /\ priority' = priority + 1
    /\ names' = Tail(names)
    /\ IF Tail(names) = <<>>
       THEN pc' = "parse" /\ pos' = pos + 1
       ELSE UNCHANGED <<pc, pos>>
    /\ UNCHANGED <<query, pairs, error>>

\* yield Param(limit, Limit(int(v)))
LimitParam ==
    /\ Dispatched
    /\ k # order_by /\ k = limit
    /\ IF CastInt(v) = CastFailed
       THEN Raise([kind |-> "cast", field |-> NoField])
       ELSE /\ Yield(Param(limit, Limit(CastInt(v))))
            /\ pos' = pos + 1
            /\ UNCHANGED <<query, pairs, names, priority, error, pc>>

\* yield Param(offset, Offset(int(v)))
OffsetParam ==
    /\ Dispatched
    /\ k \notin {order_by, limit} /\ k = offset
    /\ IF CastInt(v) = CastFailed
       THEN Raise([kind |-> "cast", field |-> NoField])
       ELSE /\ Yield(Param(offset, Offset(CastInt(v))))
            /\ pos' = pos + 1
            /\ UNCHANGED <<query, pairs, names, priority, error, pc>>

\* yield self._parse_filter_param(k, v.strip(), types_map)
FilterParam ==
    /\ Dispatched
    /\ k \notin {order_by, limit, offset}
    /\ LET r == _parse_filter_param(k, Strip(v))
       IN  IF r.raised
           THEN Raise(r.error)
           ELSE /\ Yield(r.param)
                /\ pos' = pos + 1
                /\ UNCHANGED <<query, pairs, names, priority, error, pc>>

\* the pairs are exhausted: the generator returns
Return ==
    /\ pc = "parse"
    /\ pos > Len(pairs)
    /\ pc' = "done"
    /\ UNCHANGED <<query, pairs, pos, names, priority, out, error>>

Next ==
    \/ Call
    \/ Unpack
    \/ SkipNone
    \/ OrderBy
    \/ _parse_order_param
    \/ LimitParam
    \/ OffsetParam
    \/ FilterParam
    \/ Return

Spec == Init /\ [][Next]_vars

(***************************************************************************)
(* Properties.  What a pair is expected to give is written out here from   *)
(* the statement of each property, by prefixes, suffixes and counting,     *)
(* and compared with what the state machine above produced.                *)
(***************************************************************************)

Reserved == {order_by, limit, offset}

\* the i-th pair has a name and a value, and the value is not absent
Present(i) == Len(pairs[i]) = 2 /\ pairs[i][2] # None

\* the i-th pair is a filter pair that reaches the dispatcher
IsFilter(i) == Present(i) /\ pairs[i][1] \notin Reserved

\* the i-th pair is a filter pair of a declared field
IsDeclared(i) == IsFilter(i) /\ pairs[i][1] \in DOMAIN types_map

TypeOf(i) == types_map[pairs[i][1]]

\* the value of the i-th pair without the white space around it
Trimmed(i) == Strip(pairs[i][2])

NumberOf(s, c) == Cardinality({j \in 1..Len(s) : s[j] = c})

\* how many results the i-th pair stands for: none if its value is absent,
\* one for each comma-separated name of an order value, one otherwise
Count(i) ==
    IF ~Present(i) THEN 0
    ELSE IF pairs[i][1] = order_by THEN NumberOf(pairs[i][2], ",") + 1
    ELSE 1

\* how many results the pairs before the i-th stand for
RECURSIVE Before(_)
Before(i) == IF i <= 1 THEN 0 ELSE Before(i - 1) + Count(i - 1)

\* the i-th pair has been passed without an error
Passed(i) == pos > i

\* the call failed at the i-th pair
FailedAt(i) == pc = "raised" /\ pairs # <<>> /\ pos = i

\* the result of the i-th pair, a filter pair that has been passed
ResultOf(i) == out[Before(i) + 1]

\* bracketed: '(' or '[' first and ')' or ']' last
Opening(w) == Len(w) >= 2 /\ w[1] \in {"(", "["}
Closing(w) == Len(w) >= 2 /\ w[Len(w)] \in {")", "]"}
IntervalSyntax(w) == Opening(w) /\ Closing(w)
Interior(w) == SubSeq(w, 2, Len(w) - 1)

\* braced: '{...}' or '!{...}'
SetSyntax(w) ==
    /\ StartsWith(w, <<"{">>) \/ StartsWith(w, <<"!", "{">>)
    /\ EndsWith(w, <<"}">>)
    /\ Len(w) >= 2

\* the marker a value starts with, the longest of '!~~', '~~', '!~', '~',
\* '!', or none
Marker(w) ==
    IF StartsWith(w, <<"!", "~", "~">>) THEN <<"!", "~", "~">>
    ELSE IF StartsWith(w, <<"~", "~">>) THEN <<"~", "~">>
    ELSE IF StartsWith(w, <<"!", "~">>) THEN <<"!", "~">>
    ELSE IF StartsWith(w, <<"~">>) THEN <<"~">>
    ELSE IF StartsWith(w, <<"!">>) THEN <<"!">>
    ELSE <<>>

\* the entire remainder of the value after its marker
Remainder(w) == SubSeq(w, Len(Marker(w)) + 1, Len(w))

\* the clause the grammar table gives for a value that is neither in
\* interval nor in set syntax, x being the cast remainder
TableClause(w, x) ==
    IF w = <<"n", "u", "l", "l">> THEN IS(NoneValue)
    ELSE IF w = <<"!", "n", "u", "l", "l">> THEN NOT(IS(NoneValue))
    ELSE IF Marker(w) = <<"~", "~">> THEN LIKE(x, FALSE)
    ELSE IF Marker(w) = <<"!", "~", "~">> THEN NOT(LIKE(x, FALSE))
    ELSE IF Marker(w) = <<"~">> THEN LIKE(x, TRUE)
    ELSE IF Marker(w) = <<"!", "~">> THEN NOT(LIKE(x, TRUE))
    ELSE IF Marker(w) = <<"!">> THEN NOT(EQ(x))
    ELSE EQ(x)

IsNullWord(w) == w \in {<<"n", "u", "l", "l">>, <<"!", "n", "u", "l", "l">>}

\* the i-th pair gives exactly the clause of the table
GivesTableClause(i) ==
    LET w == Trimmed(i)
        x == _cast(Remainder(w), TypeOf(i))
    IN  (IsNullWord(w) \/ x.kind # "raised") =>
            /\ ~FailedAt(i)
            /\ Passed(i) => ResultOf(i) = <<pairs[i][1], TableClause(w, x)>>

\* C1: for a declared filter field and a trimmed value that is not in
\* interval or set syntax, exactly one clause is yielded, the one of the
\* first matching entry of the table null, !null, ~~X, !~~X, ~X, !~X, !X, X,
\* where X is the entire remainder of the value after the marker.
C1_TableClauseForEveryValue ==
    \A i \in 1..Len(pairs) :
        (IsDeclared(i) /\ ~IntervalSyntax(Trimmed(i)) /\ ~SetSyntax(Trimmed(i)))
            => GivesTableClause(i)

\* C1 on the values that hold no line break: there the table is followed.
C1_TableClauseOnOneLine ==
    \A i \in 1..Len(pairs) :
        (/\ IsDeclared(i)
         /\ ~IntervalSyntax(Trimmed(i)) /\ ~SetSyntax(Trimmed(i))
         /\ Find(Trimmed(i), "\n") = 0)
            => GivesTableClause(i)

BoolWords == {<<"t", "r", "u", "e">>, <<"f", "a", "l", "s", "e">>}

\* C7: for a boolean field, a token that after trimming and lower-casing is
\* neither 'true' nor 'false' is a cast failure: the call fails at that pair
\* and no Param is yielded for the field.
C7_UnknownBooleanFails ==
    \A i \in 1..Len(pairs) :
        LET w == Trimmed(i)
        IN  (/\ IsDeclared(i) /\ TypeOf(i) = "bool"
             /\ ~IntervalSyntax(w) /\ ~SetSyntax(w) /\ ~IsNullWord(w)
             /\ Find(w, "\n") = 0
             /\ Lower(Strip(Remainder(w))) \notin BoolWords)
                => /\ ~Passed(i)
                   /\ FailedAt(i) => error.kind = "cast"

IsOrder(result) == result[2].op \in {"ASC", "DESC"}

\* the results of order pairs among the first n results
OrdersIn(n) == {j \in 1..n : IsOrder(out[j])}

\* C8: the k-th Order result of a call (0-based, over every occurrence of
\* the order parameter) carries priority k, so no two carry the same.
C8_PriorityIsPositionInRequest ==
    \A j \in 1..Len(out) :
        IsOrder(out[j]) =>
            out[j][2].priority = Cardinality(OrdersIn(j - 1))

\* C9: every Range yielded has at least one of its two sides present.
C9_RangeHasASide ==
    \A j \in 1..Len(out) :
        out[j][2].op = "RANGE" =>
            ~(out[j][2].left = NoneValue /\ out[j][2].right = NoneValue)

\* the two sides of an interior that holds exactly one comma
LeftSide(x) == SubSeq(x, 1, Find(x, ",") - 1)
RightSide(x) == SubSeq(x, Find(x, ",") + 1, Len(x))

\* the bound of a side: absent if the side is empty, else the comparison
\* the bracket stands for, on the cast side
LeftBound(w, a) ==
    IF Len(a.val) = 0 /\ a.kind = "NoneType" THEN NoneValue
    ELSE IF w[1] = "(" THEN GT(a) ELSE GE(a)

RightBound(w, b) ==
    IF Len(b.val) = 0 /\ b.kind = "NoneType" THEN NoneValue
    ELSE IF w[Len(w)] = ")" THEN LT(b) ELSE LE(b)

\* the cast of a side, no value for an empty side
SideValue(side, type_) ==
    IF side = <<>> THEN NoneValue ELSE _cast(side, type_)

\* the i-th pair gives Range(L, R) for its two sides
GivesRange(i) ==
    LET w == Trimmed(i)
        a == SideValue(LeftSide(Interior(w)), TypeOf(i))
        b == SideValue(RightSide(Interior(w)), TypeOf(i))
    IN  IF a.kind = "raised" \/ b.kind = "raised"
        THEN /\ ~Passed(i)
             /\ FailedAt(i) => error.kind = "cast"
        ELSE /\ ~FailedAt(i)
             /\ Passed(i) =>
                    ResultOf(i) = <<pairs[i][1],
                                    RANGE(LeftBound(w, a), RightBound(w, b))>>

EligibleTypes == {"int", "float", "date", "datetime"}

\* the characters the interval patterns accept between the brackets
Accepted(x) ==
    /\ x # <<>>
    /\ \A j \in 1..Len(x) :
          x[j] \in Digits \/ x[j] \in {"T", "Z", ":", "-", ",", "."}

\* C2 as stated: for a field of an interval-eligible type, every value
\* <open>a,b<close> gives Range(L, R), L and R absent for an empty side and
\* else GT/GE and LT/LE of the cast side after the brackets.
C2_EveryBracketedPairIsARange ==
    \A i \in 1..Len(pairs) :
        (/\ IsDeclared(i) /\ TypeOf(i) \in EligibleTypes
         /\ IntervalSyntax(Trimmed(i))
         /\ NumberOf(Interior(Trimmed(i)), ",") = 1)
            => GivesRange(i)

\* C2, amended: the same for the values whose interior is made only of
\* the characters the interval patterns accept.
C2_AcceptedBracketedPairIsARange ==
    \A i \in 1..Len(pairs) :
        (/\ IsDeclared(i) /\ TypeOf(i) \in EligibleTypes
         /\ IntervalSyntax(Trimmed(i))
         /\ Accepted(Interior(Trimmed(i)))
         /\ NumberOf(Interior(Trimmed(i)), ",") = 1)
            => GivesRange(i)

\* a half-open range of dates with both sides present has been yielded
C2_Witness ==
    /\ pc = "done"
    /\ pairs = <<<<birthday, <<"[">> \o aDate \o <<",">> \o aDate \o <<")">>>>>>
    /\ out = <<<<birthday,
                 RANGE(GE([kind |-> "date", val |-> <<2024, 4, 4>>]),
                       LT([kind |-> "date", val |-> <<2024, 4, 4>>]))>>>>

\* the call failed at the i-th pair with an error of this kind that names
\* the field, and the pair is never passed
FailsNamingField(i, kind) ==
    /\ ~Passed(i)
    /\ FailedAt(i) =>
          error = [kind |-> kind, field |-> pairs[i][1]]

\* C5 as stated: for a field of an interval-eligible type, every bracketed
\* value whose interior splits on ',' into a number of components other
\* than two raises a malformed-input error naming the field.
C5_EveryMiscountedIntervalIsMalformed ==
    \A i \in 1..Len(pairs) :
        (/\ IsDeclared(i) /\ TypeOf(i) \in EligibleTypes
         /\ IntervalSyntax(Trimmed(i))
         /\ NumberOf(Interior(Trimmed(i)), ",") # 1)
            => FailsNamingField(i, "malformed-input")

\* C5, amended: the same for the values whose interior is made only of
\* the characters the interval patterns accept.
C5_AcceptedMiscountedIntervalIsMalformed ==
    \A i \in 1..Len(pairs) :
        (/\ IsDeclared(i) /\ TypeOf(i) \in EligibleTypes
         /\ IntervalSyntax(Trimmed(i))
         /\ Accepted(Interior(Trimmed(i)))
         /\ NumberOf(Interior(Trimmed(i)), ",") # 1)
            => FailsNamingField(i, "malformed-input")

\* an interval of three components, two of them empty, has been refused
C5_Witness ==
    /\ pc = "raised"
    /\ pairs = <<<<amount, <<"(", ",", "1", ",", "]">>>>>>
    /\ out = <<>>
    /\ error = [kind |-> "malformed-input", field |-> amount]

\* C6 as stated: for a field whose type is not interval-eligible, every
\* value in interval syntax raises a type-mismatch error naming the field.
C6_EveryIntervalOnOtherTypeIsRefused ==
    \A i \in 1..Len(pairs) :
        (/\ IsDeclared(i) /\ TypeOf(i) \notin EligibleTypes
         /\ IntervalSyntax(Trimmed(i))
         /\ NumberOf(Interior(Trimmed(i)), ",") >= 1)
            => FailsNamingField(i, "type-mismatch")

\* C6, amended: the same for the values whose interior is made only of
\* the characters the interval patterns accept.
C6_AcceptedIntervalOnOtherTypeIsRefused ==
    \A i \in 1..Len(pairs) :
        (/\ IsDeclared(i) /\ TypeOf(i) \notin EligibleTypes
         /\ IntervalSyntax(Trimmed(i))
         /\ Accepted(Interior(Trimmed(i))))
            => FailsNamingField(i, "type-mismatch")

\* a bracketed value with a sign inside on a string field has been yielded
\* whole as an equality
C6_SilentLiteral ==
    /\ pairs = <<<<annotation, <<"(", "+", "3", ",", "1", ")">>>>>>
    /\ out = <<<<annotation,
                 EQ([kind |-> "str",
                     val |-> <<"(", "+", "3", ",", "1", ")">>])>>>>

\* an interval on a string field has been refused
C6_Witness ==
    /\ pc = "raised"
    /\ pairs = <<<<annotation, <<"(", "1", ",", "1", ")">>>>>>
    /\ out = <<>>
    /\ error = [kind |-> "type-mismatch", field |-> annotation]

\* the name and the direction a comma-separated name of an order value
\* stands for, with the priority of its position
OrderResult(n, position) ==
    IF n # <<>> /\ n[1] = "-"
    THEN <<SubSeq(n, 2, Len(n)), DESC(position)>>
    ELSE <<n, ASC(position)>>

\* the results of an order value, in the order of its names
OrderResults(value) ==
    [j \in 1..Len(Split(value, ",")) |->
        OrderResult(Split(value, ",")[j], j - 1)]

IsPrefix(s, t) == Len(s) <= Len(t) /\ s = SubSeq(t, 1, Len(s))

\* C3: an order value of n comma-separated names gives exactly n results in
\* the order of the names; the i-th (0-based) has priority i, is DESC with
\* the name less its leading '-' if the name starts with '-', and ASC with
\* the name as it is otherwise; repeated names are kept.
C3_OrderValueGivesOneResultPerName ==
    \A i \in 1..Len(pairs) :
        (Present(i) /\ pairs[i][1] = order_by) =>
            /\ Passed(i) =>
                  SubSeq(out, Before(i) + 1, Before(i) + Count(i))
                      = OrderResults(pairs[i][2])
            /\ (pc = "order" /\ pos = i) =>
                  IsPrefix(SubSeq(out, Before(i) + 1, Len(out)),
                           OrderResults(pairs[i][2]))

\* a repeated name, once ascending and once descending, has been yielded
C3_Witness ==
    /\ pc = "done"
    /\ pairs = <<<<order_by, <<"a", ",", "-", "a">>>>>>
    /\ out = <<<<<<"a">>, ASC(0)>>, <<<<"a">>, DESC(1)>>>>

\* the i-th pair is a filter pair of a field that is not declared
Undeclared(i) == IsFilter(i) /\ pairs[i][1] \notin DOMAIN types_map

\* C4: when the call reaches a pair whose name is neither reserved nor
\* declared, it fails there with an undeclared-field error: nothing is
\* yielded for the pair, what was yielded before stays as it is, and no
\* step follows the failure.
C4_UndeclaredFieldStopsTheCall ==
    [][/\ pc # "raised"
       /\ (pc = "parse" /\ pos <= Len(pairs) /\ Undeclared(pos)) =>
             /\ pc' = "raised"
             /\ pos' = pos
             /\ out' = out
             /\ error' = [kind |-> "undeclared-field",
                          field |-> pairs[pos][1]]]_vars

\* the call failed at an undeclared field after it had yielded a result,
\* with a pair still to come
C4_Witness ==
    /\ pc = "raised"
    /\ error = [kind |-> "undeclared-field", field |-> foo]
    /\ Len(out) = 1
    /\ pos = 2
    /\ Len(pairs) = 3

\* the names the i-th pair stands for
ExpectedNames(i) ==
    IF ~Present(i) THEN <<>>
    ELSE IF pairs[i][1] = order_by
    THEN [j \in 1..Len(OrderResults(pairs[i][2])) |->
             OrderResults(pairs[i][2])[j][1]]
    ELSE <<pairs[i][1]>>

\* the names the first n pairs stand for, in the order of the pairs
RECURSIVE ExpectedUpTo(_)
ExpectedUpTo(n) ==
    IF n = 0 THEN <<>> ELSE ExpectedUpTo(n - 1) \o ExpectedNames(n)

NamesOf(results) == [j \in 1..Len(results) |-> results[j][1]]

\* C10: on an input without error the output is the concatenation, in the
\* order of the pairs, of what each pair gives: nothing for an absent
\* value, whatever the name; one result per name of an order value; one
\* result, named after the limit name, the offset name or the field, for a
\* limit, offset or filter pair.  At every point the results yielded so far
\* are a prefix of that sequence.
C10_OutputFollowsThePairs ==
    /\ IsPrefix(NamesOf(out), ExpectedUpTo(Len(pairs)))
    /\ pos <= Len(pairs) + 1
    /\ pc \in {"parse", "done"} => NamesOf(out) = ExpectedUpTo(pos - 1)
    /\ pc = "done" => pos = Len(pairs) + 1

\* a call over an order pair, a pair without value and a limit has ended
C10_Witness ==
    /\ pc = "done"
    /\ pairs = <<<<order_by, <<"a", ",", "-", "b">>>>, <<amount, None>>,
                 <<limit, <<"1">>>>>>
    /\ NamesOf(out) = <<<<"a">>, <<"b">>, limit>>

\* the value '1', a line break, '1' of a string field has been yielded as
\* an equality with '1' alone
C1_Truncated ==
    /\ pairs = <<<<annotation, <<"1", "\n", "1">>>>>>
    /\ out = <<<<annotation, EQ([kind |-> "str", val |-> <<"1">>])>>>>

=============================================================================
